---- MODULE Spec2Model ----
(***************************************************************************)
(* EdgeRunner (src/src/edgeRunner.js, class at lines 896-1199): plugin     *)
(* loading, the invocation adapter and the request / response pipelines.   *)
(***************************************************************************)
EXTENDS Integers, Sequences, FiniteSets, TLC

VARIABLES
    runner,     \* "none" | "ready" | "failed" (constructor threw) | "crashed"
    dir,        \* files of the plugin path, in readdir order (file kinds)
    envFile,    \* keys of the env file, in file order
    envVars,    \* this.envVars (set of keys)
    modules,    \* this.modules: stage -> sequence of [file, gen]
    gen,        \* number of _load() runs so far
    pc,         \* per call: "idle" | "pending" | "settled" | "done" | "rejected"
    hook,       \* per call: "request" (runRequestHook) | "response" (runResponseHook)
    ti,         \* per call: index of the stage being iterated (outer for)
    arr,        \* per call: the array the inner for..of iterates
    mi,         \* per call: index of the module being run in arr
    rec,        \* per call: the pipeline's request / response variable
    hobj,       \* per call: the object the running handler holds
    prom,       \* per call: the promise of the current _invoke
    sigs,       \* per call: completion signals emitted by the current handler (history)
    mutated,    \* per call: the handler mutated its object after settling
    out,        \* per call: the value the hook call resolved with
    snap,       \* per call: hobj as it was when the promise settled (history)
    log,        \* per call: the invocations made, in order (history)
    src,        \* bake: plugin source text (sequence of characters)
    bakeVars,   \* bake: this.bakeVars, key -> value
    code,       \* bake: the substituted text
    bakeFile,   \* bake: the KEY=value lines of the bake file as they are now
    penv,       \* per _load() run: process.env of the sandboxes it built (history)
    globals,    \* properties set on sandbox globals: set of [box, by]
    reqs,       \* per call: the req object the caller passed
    creq,       \* per call: runResponseHook's request record (const request)
    given,      \* per call: the clone the running handler was handed, when
                \* it is not the object the handler settles with
    watch,      \* options.watch, the watched paths, this.watchers, and per
                \* path the close() calls its handle received (history)
    outfile,    \* options.outputPath is set, and the text of the file there
    srv,        \* the server's handling of one HTTP request (req, res)
    disk        \* paths that exist under options.directory

vars == <<runner, dir, envFile, envVars, modules, gen, pc, hook, ti, arr, mi,
          rec, hobj, prom, sigs, mutated, out, snap, log, src, bakeVars, code,
          bakeFile, penv, globals, reqs, creq, given, watch, outfile, srv, disk>>

loadVars == <<runner, dir, envFile, envVars, modules, gen>>
callVars == <<pc, hook, ti, arr, mi, rec, hobj, prom, sigs, mutated, out, snap, log>>
bakeText == <<src, bakeVars, code, bakeFile>>
bakeState == <<src, bakeVars, code, bakeFile, penv>>
sideVars == <<globals, reqs, creq, given>>
hostVars == <<watch, outfile, srv, disk>>

None == "none"

(***************************************************************************)
(* Bounds                                                                  *)
(***************************************************************************)
MaxSignals == 2     \* completion signals one handler invocation may emit
MaxLoads == 2       \* _load() runs (construction included)
MaxDir == 2         \* files in the plugin directory
MaxEnv == 2         \* keys in the env file
MaxSrc == 3         \* items (tokens, characters) in a plugin source text
MaxCloses == 2      \* calls of close() on one runner

Calls == {"c1", "c2"}

Stages == {"viewer-request", "origin-request", "origin-response", "viewer-response"}
\* bug: the stage lists in the wrong order
RequestTypes_Swapped == <<"origin-request", "viewer-request">>
ResponseTypes_Swapped == <<"viewer-response", "origin-response">>

\* the stage lists of runRequestHook (1008) and runResponseHook (1056)
RequestTypes == <<"viewer-request", "origin-request">>
ResponseTypes == <<"origin-response", "viewer-response">>

TypesOf(h) == IF h = "request" THEN RequestTypes ELSE ResponseTypes

(***************************************************************************)
(* Header maps: a JS object, i.e. an insertion-ordered list of entries.    *)
(* An entry [k, key, value] stands for  headers[k] = [{key, value}].       *)
(***************************************************************************)
toLowerCase(k) ==
    CASE k = "X-Vr" -> "x-vr"
      [] k = "X-Or" -> "x-or"
      [] k = "Cache-Control" -> "cache-control"
      [] k = "X-Frame" -> "x-frame"
      [] k = "Location" -> "location"
      [] k = "Host" -> "host"
      [] OTHER -> k

HasKey(h, k) == \E i \in 1..Len(h) : h[i].k = k

\* obj[k] = e : an existing key keeps its position, a new key is appended
SetKey(h, e) ==
    IF HasKey(h, e.k)
    THEN [i \in 1..Len(h) |-> IF h[i].k = e.k THEN e ELSE h[i]]
    ELSE Append(h, e)

\* headers[k]?.[0]?.value
HeaderValue(h, k) ==
    IF HasKey(h, k) THEN (CHOOSE e \in {h[i] : i \in 1..Len(h)} : e.k = k).value
    ELSE None

RECURSIVE LowerKeysFrom(_, _, _)
LowerKeysFrom(h, i, acc) ==
    IF i > Len(h) THEN acc
    ELSE LowerKeysFrom(h, i + 1,
            SetKey(acc, [k |-> toLowerCase(h[i].k), key |-> h[i].key, value |-> h[i].value]))

\* normalized[k.toLowerCase()] = headers[k], for each key in order
LowerKeys(h) == LowerKeysFrom(h, 1, <<>>)

RECURSIVE NormalizeFrom(_, _, _)
NormalizeFrom(input, i, acc) ==
    IF i > Len(input) THEN acc
    ELSE NormalizeFrom(input, i + 1,
            SetKey(acc, [k |-> toLowerCase(input[i].k), key |-> input[i].k, value |-> input[i].value]))

\* _normalizeHeaders: headers[k.toLowerCase()] = [{ key: k, value: String(val) }]
\* (input: list of [k, value] pairs of the inbound header object)
_normalizeHeaders(input) == NormalizeFrom(input, 1, <<>>)

(***************************************************************************)
(* Records.  A field that is absent (undefined) holds None.                *)
(***************************************************************************)
Undefined == [undef |-> TRUE]

\* no value yet (history variables, results not yet produced)
Nothing == [nothing |-> TRUE]

\* bug: the leading "?" of urlObj.search is kept
_buildRequestRecord_KeepMark(req) ==
    [method |-> IF req.method = None THEN "GET" ELSE req.method,
     uri |-> req.pathname,
     querystring |-> IF req.search = "" THEN "" ELSE "?" \o req.search,
     status |-> None,
     headers |-> _normalizeHeaders(req.headers),
     type |-> None]

\* _buildRequestRecord (req.pathname, req.search: what new URL(req.url ||
\* '/', 'http://localhost') gives for the req, the "?" of search removed)
_buildRequestRecord(req) ==
    [method |-> IF req.method = None THEN "GET" ELSE req.method,
     uri |-> req.pathname,
     querystring |-> req.search,
     status |-> None,
     headers |-> _normalizeHeaders(req.headers),
     type |-> None]

\* the response record runResponseHook starts from
BuildResponseRecord(resData) ==
    [method |-> None,
     uri |-> None,
     querystring |-> None,
     status |-> IF resData.status = None THEN "200" ELSE resData.status,
     headers |-> _normalizeHeaders(resData.headers),
     type |-> None]

\* a JS value is truthy: neither undefined nor the empty string
Truthy(v) == v # None /\ v # ""

\* names of top-level fields a flattened header can collide with
FieldNames == {"method", "uri", "querystring", "status", "type", "url"}

RECURSIVE FlattenFrom(_, _, _)
FlattenFrom(h, i, o) ==
    IF i > Len(h) THEN o
    ELSE LET name == toLowerCase(h[i].k)
             v == h[i].value
         IN FlattenFrom(h, i + 1,
              IF v = None THEN o
              ELSE IF name \in FieldNames THEN [o EXCEPT ![name] = v]
              ELSE [o EXCEPT !.flat = SetKey(@, [k |-> name, value |-> v])])

\* bug: the query string is dropped from the url
_flatten_NoQuery(obj) ==
    IF obj = Undefined THEN obj
    ELSE LET base == [method |-> obj.method, uri |-> obj.uri,
                      querystring |-> obj.querystring, status |-> obj.status,
                      headers |-> obj.headers, type |-> obj.type,
                      url |-> None, flat |-> <<>>, isResponse |-> FALSE]
             o == FlattenFrom(obj.headers, 1, base)
         IN IF Truthy(o.uri) THEN [o EXCEPT !.url = o.uri] ELSE o

\* _flatten: deep clone, header values copied to the top level, url re-joined
_flatten(obj) ==
    IF obj = Undefined THEN obj
    ELSE LET base == [method |-> obj.method, uri |-> obj.uri,
                      querystring |-> obj.querystring, status |-> obj.status,
                      headers |-> obj.headers, type |-> obj.type,
                      url |-> None, flat |-> <<>>, isResponse |-> FALSE]
             o == FlattenFrom(obj.headers, 1, base)
         IN IF Truthy(o.uri)
            THEN [o EXCEPT !.url = IF Truthy(o.querystring)
                                   THEN o.uri \o "?" \o o.querystring
                                   ELSE o.uri]
            ELSE o

(***************************************************************************)
(* Loading.  A file of the plugin path is described by what evaluating it  *)
(* gives: a stage name (exports.hookType with a handler), "helper" (no     *)
(* hook exports) or "broken" (evaluation throws).                          *)
(***************************************************************************)
FileKinds == Stages \cup {"helper", "broken"}

\* further kinds: exports.hookType is no stage name ("unknown-hook"),
\* exports.handler is a string ("no-function"), a hookType with no handler
\* ("hook-only")
AllKinds == FileKinds \cup {"unknown-hook", "no-function", "hook-only"}

EmptyModules == [s \in Stages |-> <<>>]

\* module.exports after the file was evaluated
Exports(kind) ==
    CASE kind \in Stages -> [hookType |-> kind, handler |-> "function"]
      [] kind = "unknown-hook" -> [hookType |-> "edge-request", handler |-> "function"]
      [] kind = "no-function" -> [hookType |-> "viewer-request", handler |-> "string"]
      [] kind = "hook-only" -> [hookType |-> "origin-request", handler |-> None]
      [] OTHER -> [hookType |-> None, handler |-> None]

\* _loadFile: evaluate, then
\*   if (mod.handler && mod.hookType) this.modules[mod.hookType].push(...)
\* (push on the undefined this.modules[<no stage name>] is a TypeError)
\* st = [modules, threw]; a throw leaves this.modules as it was
_loadFile(st, kind, file, g) ==
    IF kind = "broken" THEN [st EXCEPT !.threw = TRUE]
    ELSE LET mod == Exports(kind) IN
         IF mod.handler # None /\ mod.hookType # None
         THEN IF mod.hookType \in Stages
              THEN [st EXCEPT !.modules[mod.hookType] =
                                  Append(@, [file |-> file, gen |-> g])]
              ELSE [st EXCEPT !.threw = TRUE]
         ELSE st

RECURSIVE LoadFrom(_, _, _, _)
LoadFrom(d, i, st, g) ==
    IF i > Len(d) \/ st.threw THEN st
    ELSE LoadFrom(d, i + 1, _loadFile(st, d[i], i, g), g)

\* _load: empty every stage, then load the files in order; the first file
\* that throws ends the loop (forEach) and the exception leaves _load
_load(d, g) == LoadFrom(d, 1, [modules |-> EmptyModules, threw |-> FALSE], g)

whitelist == {"AWS_REGION", "TZ", "LANG"}

EnvKeys == whitelist \cup {"DATABASE_URL"}

RECURSIVE EnvFrom(_, _, _)
EnvFrom(f, i, st) ==
    IF i > Len(f) \/ st.threw THEN st
    ELSE EnvFrom(f, i + 1,
            IF f[i] \notin whitelist THEN [st EXCEPT !.threw = TRUE]
            ELSE [st EXCEPT !.envVars = @ \cup {f[i]}])

\* bug: a key off the whitelist is skipped instead of raising
_loadFidelityFiles_Skip(f, ev) ==
    [envVars |-> ev \cup {f[i] : i \in {j \in 1..Len(f) : f[j] \in whitelist}},
     threw |-> FALSE]

\* _loadFidelityFiles (env part): throws at the first key off the whitelist
_loadFidelityFiles(f, ev) == EnvFrom(f, 1, [envVars |-> ev, threw |-> FALSE])

SeqsUpTo(S, n) == UNION {[1..k -> S] : k \in 0..n}

\* the paths a runner can watch, in the order of _watch
Targets == <<"edge", "env", "bake">>

RECURSIVE ExistingFrom(_, _)
ExistingFrom(paths, i) ==
    IF i > Len(paths) THEN <<>>
    ELSE (IF paths[i].exists THEN <<paths[i].name>> ELSE <<>>) \o ExistingFrom(paths, i + 1)

\* the handles this.watchers holds after the constructor's
\*   if (options.watch !== false) this._watch()
\* paths: [edgePath, envPath, bakePath].filter(Boolean), with fs.existsSync
_watch(option, paths) == IF option THEN ExistingFrom(paths, 1) ELSE <<>>

\* bug: a change is acted on whether or not a watcher is installed
Watched_Always(t) == TRUE

\* a watcher is installed on path t
Watched(t) == \E i \in 1..Len(watch.watchers) : watch.watchers[i] = t

\* this.envPath / this.bakePath is set and fs.existsSync(it)
PathExists(t) ==
    \E i \in 1..Len(watch.paths) : watch.paths[i].name = t /\ watch.paths[i].exists

\* _loadFidelityFiles (bake part): this.bakeVars = dotenv.parse(...)
ReadBake(bv, file) == IF PathExists("bake") THEN file ELSE bv

HostEnv == {"HOME", "DATABASE_URL"}

\* bug: the sandbox is handed the host's environment too
SandboxEnv_Host(ev) == ev \cup HostEnv

\* sandbox.process.env: { ...this.envVars } (972-973), keys only
SandboxEnv(ev) == ev

\* new EdgeRunner(edgePath, {envPath}): _loadFidelityFiles(); _load(); _watch()
Construct ==
    /\ runner = "none"
    /\ LET e == _loadFidelityFiles(envFile, {})
           l == _load(dir, gen + 1)
       IN /\ IF e.threw
             THEN /\ runner' = "failed"
                  /\ UNCHANGED <<envVars, modules, gen, bakeVars, penv>>
             ELSE /\ envVars' = e.envVars
                  /\ penv' = Append(penv, SandboxEnv(e.envVars))
                  /\ bakeVars' = ReadBake(bakeVars, bakeFile)
                  /\ gen' = gen + 1
                  /\ modules' = l.modules
                  /\ runner' = IF l.threw THEN "failed" ELSE "ready"
          /\ watch' = IF e.threw \/ l.threw THEN watch
                      ELSE [watch EXCEPT !.watchers = _watch(watch.option, watch.paths)]
    /\ UNCHANGED <<dir, envFile, callVars, src, code, bakeFile, sideVars, outfile, srv, disk>>

\* bug: close() keeps the handles in this.watchers
AfterClose_Kept(ws) == ws

\* this.watchers = [] (1197)
AfterClose(ws) == <<>>

\* close(): this.watchers.forEach(w => w.close()); this.watchers = []
Close ==
    /\ runner = "ready"
    /\ watch.calls < MaxCloses
    /\ watch' = [watch EXCEPT
                    !.closes = [t \in DOMAIN @ |->
                                  @[t] + Cardinality({i \in 1..Len(watch.watchers) :
                                                        watch.watchers[i] = t})],
                    !.watchers = AfterClose(@),
                    !.calls = @ + 1]
    /\ UNCHANGED <<loadVars, callVars, bakeState, sideVars, outfile, srv, disk>>

\* no continuation of an await is queued: timers, I/O events and new calls
\* run only when the microtask queue is empty
NoMicrotask(c) == \A q \in Calls \ {c} : pc[q] # "settled"

\* the plugin path changes and the watcher (fs.watch(t, () => this._load()))
\* fires; an exception leaving the listener is uncaught
Reload(d) ==
    /\ runner = "ready"
    /\ IF d # dir THEN Watched("edge") ELSE watch.watchers # <<>>
    /\ gen < MaxLoads
    /\ \A q \in Calls : pc[q] # "settled"
    /\ dir' = d
    /\ gen' = gen + 1
    /\ LET l == _load(d, gen + 1)
       IN /\ modules' = l.modules
          /\ runner' = IF l.threw THEN "crashed" ELSE "ready"
    /\ penv' = Append(penv, SandboxEnv(envVars))
    /\ UNCHANGED <<envFile, envVars, callVars, bakeText, sideVars, hostVars>>

\* a change event on path t, the plugin path now holding d: the listener
\* installed by _watch runs _load() and nothing else; with no watcher on t
\* nothing runs
OnChange(t, d) ==
    IF Watched(t)
    THEN /\ gen < MaxLoads
         /\ \A q \in Calls : pc[q] # "settled"
         /\ gen' = gen + 1
         /\ modules' = _load(d, gen + 1).modules
         /\ runner' = IF _load(d, gen + 1).threw THEN "crashed" ELSE "ready"
         /\ penv' = Append(penv, SandboxEnv(envVars))
    ELSE UNCHANGED <<gen, modules, runner, penv>>

\* the files of the plugin path change
PathChanged(d) ==
    /\ runner = "ready"
    /\ d # dir
    /\ dir' = d
    /\ OnChange("edge", d)
    /\ UNCHANGED <<envFile, envVars, callVars, bakeText, sideVars, hostVars>>

\* the env file is rewritten with the keys f
EnvChanged(f) ==
    /\ runner = "ready"
    /\ f # envFile
    /\ envFile' = f
    /\ OnChange("env", dir)
    /\ UNCHANGED <<dir, envVars, callVars, bakeText, sideVars, hostVars>>

\* the bake file is rewritten with the lines b
BakeChanged(b) ==
    /\ runner = "ready"
    /\ b # bakeFile
    /\ bakeFile' = b
    /\ OnChange("bake", dir)
    /\ UNCHANGED <<dir, envFile, envVars, callVars, src, bakeVars, code, sideVars, hostVars>>

(***************************************************************************)
(* Handlers.  A handler's body is one of a few representative edits of the *)
(* record it is given; what it signals, and when, is left open.            *)
(***************************************************************************)
StageHeader(stage) ==
    CASE stage = "viewer-request" -> "X-Vr"
      [] stage = "origin-request" -> "X-Or"
      [] stage = "origin-response" -> "Cache-Control"
      [] stage = "viewer-response" -> "X-Frame"

RequestEdits == {"id", "uri", "qs", "hdr", "status", "resp"}
ResponseEdits == {"id", "hdr"}

\* bodies that call the sandbox's require(id) before anything else
RequireEdits == {"require-fs", "require-child_process", "require-os", "require-path"}

RequiredId(e) ==
    CASE e = "require-fs" -> "fs"
      [] e = "require-child_process" -> "child_process"
      [] e = "require-os" -> "os"
      [] e = "require-path" -> "path"

\* "pollute": global.POISON = 'dirty'; "check": a header x-state set to
\* global.POISON || 'clean'; "syncret": return the request, no callback;
\* "hang": no return value, no callback, ever;
\* "scribble": write to event.Records[0].cf, settle with another object;
\* "strip": drop utm_source from the query string; "sethost", "addvia",
\* "delhost": set or delete a restricted header
SandboxEdits == {"pollute", "check"}
HeaderEdits == {"sethost", "addvia", "delhost"}
\* "setamz", "setedge": set a header with a reserved platform prefix
PrefixEdits == {"setamz", "setedge"}
\* "redirect": generate a response whose header is keyed "Location"
CaseEdits == {"redirect"}
MoreEdits == RequireEdits \cup SandboxEdits \cup HeaderEdits \cup PrefixEdits
                \cup CaseEdits \cup {"syncret", "scribble", "hang"}

EditsOf(h) ==
    IF h = "request" THEN RequestEdits \cup MoreEdits \cup {"strip"}
    ELSE ResponseEdits \cup MoreEdits

\* sandbox.require (977-983): forbidden.includes(id) throws
\* new Error(`Forbidden: ${id}`), any other id is required from the host
forbidden == {"fs", "child_process", "os"}

SandboxRequire(id) == IF id \in forbidden THEN "throws" ELSE "module"

\* the handler body throws before it signals anything
Throws(e) == e \in RequireEdits /\ SandboxRequire(RequiredId(e)) = "throws"

\* bug: one context for every file
SandboxOf_Shared(file, g) == [file |-> 0, gen |-> 0]

\* the global scope of a module: _loadFile builds a new sandbox object, sets
\* sandbox.global = sandbox and makes it a context (957-990), once per file
\* and per load
SandboxOf(file, g) == [file |-> file, gen |-> g]

\* the modules that have set POISON on the global scope box
WritersOf(box) == {w.by : w \in {x \in globals : x.box = box}}

\* global.POISON || 'clean'
ReadGlobal(box) == IF WritersOf(box) # {} THEN "dirty" ELSE "clean"

\* delete headers[k]
DelKey(h, k) == SelectSeq(h, LAMBDA x : x.k # k)

\* what "scribble" writes into the record it was handed
Scribbled(o) ==
    [o EXCEPT !.uri = "/scribbled",
              !.headers = SetKey(@, [k |-> "x-scribble", key |-> "X-Scribble",
                                     value |-> "1"])]

\* bug: the handler is handed the record itself
AfterScribble_Shared(o) == Scribbled(o)

\* the record _invoke was called with, after the handler wrote to the clone
\* it was handed (1084: const cloned = this._deepClone(record))
AfterScribble(o) == o

\* a generated response, e.g. a redirect
GeneratedResponse ==
    [method |-> None, uri |-> None, querystring |-> None, status |-> "302",
     headers |-> <<[k |-> "location", key |-> "Location", value |-> "/login"]>>,
     type |-> None]

ApplyEdit(e, o, stage) ==
    CASE e = "id" -> o
      [] e = "uri" -> [o EXCEPT !.uri = IF stage = "viewer-request"
                                        THEN "/v1" \o @ ELSE @ \o ".json"]
      [] e = "qs" -> [o EXCEPT !.querystring = ""]
      [] e = "hdr" -> [o EXCEPT !.headers =
                          SetKey(@, [k |-> StageHeader(stage),
                                     key |-> StageHeader(stage), value |-> "1"])]
      [] e = "status" -> [o EXCEPT !.status = "200"]
      [] e = "resp" -> GeneratedResponse
      [] e = "redirect" -> [GeneratedResponse EXCEPT !.headers =
                               <<[k |-> "Location", key |-> "Location", value |-> "/login"]>>]
      [] e = "strip" -> [o EXCEPT !.querystring =
                            IF @ = "utm_source=twitter&other=keep" THEN "other=keep"
                            ELSE @]
      [] e = "sethost" -> [o EXCEPT !.headers =
                              SetKey(@, [k |-> "host", key |-> "Host", value |-> "evil"])]
      [] e = "addvia" -> [o EXCEPT !.headers =
                             SetKey(@, [k |-> "via", key |-> "Via", value |-> "1.1 edge"])]
      [] e = "delhost" -> [o EXCEPT !.headers = DelKey(@, "host")]
      [] e = "setamz" -> [o EXCEPT !.headers =
                             SetKey(@, [k |-> "x-amz-cf-id", key |-> "X-Amz-Cf-Id",
                                        value |-> "forged"])]
      [] e = "setedge" -> [o EXCEPT !.headers =
                              SetKey(@, [k |-> "x-edge-location", key |-> "X-Edge-Location",
                                         value |-> "forged"])]
      [] OTHER -> o

\* the handler sets a property of the object it holds after it has settled
Zombie(o) == [o EXCEPT !.method = "ZOMBIE"]

\* _deepClone: JSON round trip; absent fields stay absent, the copy shares
\* nothing with the original (aliasing is what hobj / rec keep apart)
_deepClone(o) == o

(***************************************************************************)
(* The pipelines                                                           *)
(***************************************************************************)
Inbound ==
    {[method |-> None, pathname |-> "/a", search |-> "", headers |-> <<>>],
     [method |-> "GET", pathname |-> "/a", search |-> "q=1",
      headers |-> <<[k |-> "Host", value |-> "h"]>>]}

ResData == {[status |-> None, headers |-> <<>>]}

Rejected == [rejected |-> TRUE]

\* position of the next module to run after (t, a, m): the inner for..of
\* goes on over the array it started with, the outer for reads
\* this.modules[type] when it reaches that type
RECURSIVE NextType(_, _)
NextType(h, t) ==
    IF t > Len(TypesOf(h)) THEN [ti |-> t, arr |-> <<>>, mi |-> 0, more |-> FALSE]
    ELSE IF Len(modules[TypesOf(h)[t]]) > 0
    THEN [ti |-> t, arr |-> modules[TypesOf(h)[t]], mi |-> 1, more |-> TRUE]
    ELSE NextType(h, t + 1)

NextModule(h, t, a, m) ==
    IF m < Len(a) THEN [ti |-> t, arr |-> a, mi |-> m + 1, more |-> TRUE]
    ELSE NextType(h, t + 1)

\* what the hook call returns when every stage has run
FinalResult(h, r) ==
    IF h = "request" THEN [_flatten(r) EXCEPT !.type = r.type]
    ELSE _flatten(r)

\* go on with record r (and, in runResponseHook, the request record q):
\* _invoke the next module (whose body is edit e), or return the flattened
\* record
Proceed(c, h, r, q, t, a, m, e, lg) ==
    LET n == NextModule(h, t, a, m) IN
    /\ ti' = [ti EXCEPT ![c] = n.ti]
    /\ arr' = [arr EXCEPT ![c] = n.arr]
    /\ mi' = [mi EXCEPT ![c] = n.mi]
    /\ IF n.more
       THEN LET stage == TypesOf(h)[n.ti]
                me == [file |-> n.arr[n.mi].file, gen |-> n.arr[n.mi].gen]
                box == SandboxOf(me.file, me.gen)
                cloned == _deepClone(r)
            IN
            /\ e \in EditsOf(h)
            /\ rec' = [rec EXCEPT ![c] =
                         IF e = "scribble" /\ h = "request" THEN AfterScribble(r) ELSE r]
            /\ creq' = [creq EXCEPT ![c] =
                          IF e = "scribble" /\ h = "response" THEN AfterScribble(q) ELSE q]
            /\ given' = [given EXCEPT ![c] =
                           IF e # "scribble" THEN Nothing
                           ELSE IF h = "request"
                           THEN [request |-> Scribbled(cloned), response |-> Nothing]
                           ELSE [request |-> Scribbled(_deepClone(q)),
                                 response |-> Scribbled(cloned)]]
            /\ globals' = IF e = "pollute"
                          THEN globals \cup {[box |-> box, by |-> me]}
                          ELSE globals
            /\ mutated' = [mutated EXCEPT ![c] = FALSE]
            /\ IF Throws(e)
               THEN \* handler(...) throws inside _invoke's try: reject(e)
                    /\ sigs' = [sigs EXCEPT ![c] = <<"rejected">>]
                    /\ snap' = [snap EXCEPT ![c] = Undefined]
                    /\ pc' = [pc EXCEPT ![c] = "settled"]
                    /\ prom' = [prom EXCEPT ![c] = "rejected"]
               ELSE /\ sigs' = [sigs EXCEPT ![c] = <<>>]
                    /\ snap' = [snap EXCEPT ![c] = Nothing]
                    /\ pc' = [pc EXCEPT ![c] = "pending"]
                    /\ prom' = [prom EXCEPT ![c] = "pending"]
            /\ hobj' = [hobj EXCEPT ![c] =
                          IF e = "check"
                          THEN [cloned EXCEPT !.headers =
                                  SetKey(@, [k |-> "x-state", key |-> "X-State",
                                             value |-> ReadGlobal(box)])]
                          ELSE ApplyEdit(e, cloned, stage)]
            /\ log' = [log EXCEPT ![c] =
                          Append(lg, [stage |-> stage,
                                      file |-> me.file,
                                      gen |-> me.gen,
                                      edit |-> e,
                                      input |-> r, result |-> Nothing,
                                      request |-> q,
                                      read |-> IF e = "check" THEN WritersOf(box) ELSE {},
                                      warnings |-> {}])]
            /\ out' = out
       ELSE /\ e = "id"
            /\ rec' = [rec EXCEPT ![c] = r]
            /\ creq' = [creq EXCEPT ![c] = q]
            /\ pc' = [pc EXCEPT ![c] = "done"]
            /\ out' = [out EXCEPT ![c] = FinalResult(h, r)]
            /\ log' = [log EXCEPT ![c] = lg]
            /\ UNCHANGED <<prom, hobj, sigs, mutated, snap, given, globals>>

\* runRequestHook(req) / runResponseHook(req, resData) up to the first await
StartHook(c, h, rq, e) ==
    /\ runner = "ready"
    /\ pc[c] = "idle"
    /\ NoMicrotask(c)
    /\ hook' = [hook EXCEPT ![c] = h]
    /\ reqs' = [reqs EXCEPT ![c] = rq]
    /\ IF h = "request"
       THEN Proceed(c, h, _buildRequestRecord(rq), Nothing, 0, <<>>, 0, e, <<>>)
       ELSE Proceed(c, h, BuildResponseRecord(CHOOSE d \in ResData : TRUE),
                    _buildRequestRecord(rq), 0, <<>>, 0, e, <<>>)
    /\ UNCHANGED <<loadVars, bakeState>>

\* a hook call made by a caller other than the server
Start(c, h, rq, e) ==
    /\ StartHook(c, h, rq, e)
    /\ UNCHANGED hostVars

\* bug: a later signal replaces the settled outcome
Settle_Overwrite(c, v) ==
    /\ prom' = [prom EXCEPT ![c] = v]
    /\ pc' = [pc EXCEPT ![c] = IF pc[c] = "done" THEN "done" ELSE "settled"]
    /\ snap' = [snap EXCEPT ![c] = IF v = "obj" THEN hobj[c] ELSE Undefined]

\* _invoke's promise: the first resolve / reject settles it, later ones do
\* nothing
Settle(c, v) ==
    IF prom[c] = "pending"
    THEN /\ prom' = [prom EXCEPT ![c] = v]
         /\ pc' = [pc EXCEPT ![c] = "settled"]
         /\ snap' = [snap EXCEPT ![c] = IF v = "obj" THEN hobj[c] ELSE Undefined]
    ELSE UNCHANGED <<prom, pc, snap>>

\* bug: one handler that never signals holds up every invocation
Silent_Shared(c) ==
    \E q \in Calls : log[q] # <<>> /\ log[q][Len(log[q])].edit \in {"syncret", "hang"}

\* the running handler returned no thenable and never calls its callback:
\* _invoke (1096-1103) calls neither resolve nor reject
Silent(c) == log[c] # <<>> /\ log[c][Len(log[c])].edit \in {"syncret", "hang"}

\* the handler calls callback(null, res) or its thenable fulfils
\* (v = "obj": with the object it holds, v = "undef": with no result)
SignalResult(c, v) ==
    /\ pc[c] \in {"pending", "settled", "done"}
    /\ prom[c] # "idle"
    /\ ~Silent(c)
    /\ Len(sigs[c]) < MaxSignals
    /\ NoMicrotask(c)
    /\ sigs' = [sigs EXCEPT ![c] = Append(@, v)]
    /\ Settle(c, v)
    /\ UNCHANGED <<loadVars, bakeState, sideVars, hook, ti, arr, mi, rec, hobj, mutated, out, log, hostVars>>

\* the handler throws, calls callback(err) or its thenable rejects
SignalError(c) ==
    /\ pc[c] \in {"pending", "settled", "done"}
    /\ prom[c] # "idle"
    /\ ~Silent(c)
    /\ Len(sigs[c]) < MaxSignals
    /\ NoMicrotask(c)
    /\ sigs' = [sigs EXCEPT ![c] = Append(@, "rejected")]
    /\ Settle(c, "rejected")
    /\ UNCHANGED <<loadVars, bakeState, sideVars, hook, ti, arr, mi, rec, hobj, mutated, out, log, hostVars>>

\* the handler mutates its object after settling: synchronously after the
\* callback (before the await resumes) or from a timer (after it)
Mutate(c) ==
    /\ pc[c] \in {"settled", "done"}
    /\ prom[c] = "obj"
    /\ ~mutated[c]
    /\ NoMicrotask(c)
    /\ hobj' = [hobj EXCEPT ![c] = Zombie(@)]
    /\ mutated' = [mutated EXCEPT ![c] = TRUE]
    /\ UNCHANGED <<loadVars, bakeState, sideVars, pc, hook, ti, arr, mi, rec, prom, sigs, out, snap, log, hostVars>>

\* bug: one slot for the settled object, shared by every call
Delivered_Shared(c) ==
    IF prom[c] # "obj" THEN Undefined
    ELSE IF hobj["c1"] # Nothing THEN hobj["c1"] ELSE hobj[c]

\* the value the await yields: the promise's object as it is now
Delivered(c) == IF prom[c] = "obj" THEN hobj[c] ELSE Undefined

WithResult(lg, res) == [lg EXCEPT ![Len(lg)].result = res]

\* bug: the restricted headers are taken out of the record carried on
Carry_StripRestricted(h, res, stage) ==
    IF h = "request"
    THEN [res EXCEPT !.headers = SelectSeq(LowerKeys(@), LAMBDA x : x.k \notin {"host", "via", "connection"}),
                     !.type = stage]
    ELSE [res EXCEPT !.headers = SelectSeq(LowerKeys(@), LAMBDA x : x.k \notin {"host", "via", "connection"})]

\* lines 1022-1035 / 1063-1071: lowercase the header keys of the result
\* (in place) and make it the current record
Carry(h, res, stage) ==
    IF h = "request"
    THEN [res EXCEPT !.headers = LowerKeys(@), !.type = stage]
    ELSE [res EXCEPT !.headers = LowerKeys(@)]

\* bug: the uri test without its negation
IsShortCircuit_UriKept(h, res) == h = "request" /\ Truthy(res.status) /\ Truthy(res.uri)

\* line 1015: result?.status && !result.uri, in runRequestHook only
IsShortCircuit(h, res) == h = "request" /\ Truthy(res.status) /\ ~Truthy(res.uri)

blacklist == {"host", "via", "connection"}

\* getVal (1133-1137): the value under the first key that lowercases to key
getVal(headers, key) ==
    LET hits == {i \in 1..Len(headers) : toLowerCase(headers[i].k) = key}
    IN IF hits = {} THEN None
       ELSE headers[CHOOSE i \in hits : \A j \in hits : i <= j].value

\* bug: only a header present before and after is compared
_validateBlacklistedHeaders_ChangedOnly(original, final) ==
    {key \in blacklist : /\ getVal(original, key) # None
                         /\ getVal(final, key) # None
                         /\ getVal(original, key) # getVal(final, key)}

\* _validateBlacklistedHeaders: the names console.warn is called for
_validateBlacklistedHeaders(original, final) ==
    {key \in blacklist : getVal(original, key) # getVal(final, key)}

\* bug: the generated response is returned without its stage
ShortCircuitResult_Untyped(res, stage) == [_flatten(res) EXCEPT !.isResponse = TRUE]

\* lines 1016-1019: the flattened result, marked as a response and tagged
\* with the stage
ShortCircuitResult(res, stage) ==
    [_flatten(res) EXCEPT !.isResponse = TRUE, !.type = stage]

\* the await of _invoke resumes (runRequestHook 1013-1036, runResponseHook
\* 1060-1071) and the loop goes on to the next _invoke or to the return
Resume(c, e) ==
    /\ pc[c] = "settled"
    /\ LET h == hook[c]
           stage == TypesOf(h)[ti[c]]
           res == Delivered(c)
           lg == WithResult(log[c], res)
           originalHeaders == log[c][Len(log[c])].input.headers
       IN IF prom[c] = "rejected"
          THEN \* await throws: the async function rejects
               /\ e = "id"
               /\ pc' = [pc EXCEPT ![c] = "rejected"]
               /\ out' = [out EXCEPT ![c] = Rejected]
               /\ log' = [log EXCEPT ![c] = WithResult(log[c], Rejected)]
               /\ UNCHANGED <<ti, arr, mi, rec, hobj, prom, sigs, mutated, snap,
                              globals, creq, given>>
          ELSE IF res = Undefined
          THEN \* request.type = type / result.response on undefined: TypeError
               /\ e = "id"
               /\ pc' = [pc EXCEPT ![c] = "rejected"]
               /\ out' = [out EXCEPT ![c] = Rejected]
               /\ log' = [log EXCEPT ![c] = lg]
               /\ UNCHANGED <<ti, arr, mi, rec, hobj, prom, sigs, mutated, snap,
                              globals, creq, given>>
          ELSE IF IsShortCircuit(h, res)
          THEN \* short circuit
               /\ e = "id"
               /\ pc' = [pc EXCEPT ![c] = "done"]
               /\ out' = [out EXCEPT ![c] = ShortCircuitResult(res, stage)]
               /\ log' = [log EXCEPT ![c] = lg]
               /\ UNCHANGED <<ti, arr, mi, rec, hobj, prom, sigs, mutated, snap,
                              globals, creq, given>>
          ELSE Proceed(c, h, Carry(h, res, stage), creq[c], ti[c], arr[c], mi[c], e,
                       [lg EXCEPT ![Len(lg)].warnings =
                           _validateBlacklistedHeaders(originalHeaders, res.headers)])
    /\ UNCHANGED <<loadVars, bakeState, hook, reqs, hostVars>>

(***************************************************************************)
(* Specifications                                                          *)
(***************************************************************************)
IdleCalls ==
    /\ pc = [c \in Calls |-> "idle"]
    /\ hook = [c \in Calls |-> "request"]
    /\ ti = [c \in Calls |-> 0]
    /\ arr = [c \in Calls |-> <<>>]
    /\ mi = [c \in Calls |-> 0]
    /\ rec = [c \in Calls |-> Nothing]
    /\ hobj = [c \in Calls |-> Nothing]
    /\ prom = [c \in Calls |-> "idle"]
    /\ sigs = [c \in Calls |-> <<>>]
    /\ mutated = [c \in Calls |-> FALSE]
    /\ out = [c \in Calls |-> Nothing]
    /\ snap = [c \in Calls |-> Nothing]
    /\ log = [c \in Calls |-> <<>>]
    /\ globals = {}
    /\ reqs = [c \in Calls |-> Nothing]
    /\ creq = [c \in Calls |-> Nothing]
    /\ given = [c \in Calls |-> Nothing]

NoCloses == [t \in {Targets[i] : i \in 1..Len(Targets)} |-> 0]

\* a runner constructed on an existing plugin path with the watcher on
Watching ==
    watch = [option |-> TRUE, paths |-> <<[name |-> "edge", exists |-> TRUE]>>,
             watchers |-> <<"edge">>, closes |-> NoCloses, calls |-> 0]

\* the same options before the constructor has run
NotYetWatching ==
    watch = [option |-> TRUE, paths |-> <<[name |-> "edge", exists |-> TRUE]>>,
             watchers |-> <<>>, closes |-> NoCloses, calls |-> 0]

NoOutput == outfile = [configured |-> FALSE, text |-> Nothing]

NoServer ==
    /\ srv = [phase |-> "idle"]
    /\ disk = {}

NoBake ==
    /\ src = <<>>
    /\ bakeVars = <<>>
    /\ bakeFile = <<>>
    /\ penv = [g \in 1..gen |-> SandboxEnv(envVars)]
    /\ code = <<>>

\* plugin directories the pipeline is run with
PipeDirs ==
    {<<"viewer-request", "origin-request", "origin-response", "viewer-response">>,
     <<"origin-request", "viewer-response">>}

\* a constructed, watching runner with no call in flight
Init ==
    /\ runner = "ready"
    /\ dir \in PipeDirs
    /\ envFile = <<>>
    /\ envVars = {}
    /\ gen = 1
    /\ modules = _load(dir, 1).modules
    /\ IdleCalls
    /\ Watching
    /\ NoOutput
    /\ NoServer
    /\ NoBake

\* one call at a time, every handler behaviour
One == {"c1"}

Next ==
    \/ \E c \in One, h \in {"request", "response"}, req \in Inbound, e \in RequestEdits :
          Start(c, h, req, e)
    \/ \E c \in One, v \in {"obj", "undef"} : SignalResult(c, v)
    \/ \E c \in One : SignalError(c)
    \/ \E c \in One : Mutate(c)
    \/ \E c \in One, e \in RequestEdits : Resume(c, e)
    \/ \E d \in PipeDirs : Reload(d)

Spec == Init /\ [][Next]_vars

(***************************************************************************)
(* Variable baking (line 950):                                             *)
(*   code.replace(/__([A-Z0-9_.-]+)__/g, (m, key) => this.bakeVars[key] ?? m) *)
(* Texts are sequences of characters.                                      *)
(***************************************************************************)
\* [A-Z0-9_.-]
KeyChars == {"A", "B", "_", ".", "-", "1"}

Max(S) == CHOOSE x \in S : \A y \in S : y <= x

\* end of the longest run of key characters starting at position i
RECURSIVE RunEnd(_, _)
RunEnd(s, i) ==
    IF i <= Len(s) /\ s[i] \in KeyChars THEN RunEnd(s, i + 1) ELSE i - 1

\* ends e of the keys s[i+2..e] for which the pattern matches at i
KeyEnds(s, i) ==
    IF i + 1 <= Len(s) /\ s[i] = "_" /\ s[i + 1] = "_"
    THEN {e \in (i + 2)..RunEnd(s, i + 2) :
            e + 2 <= Len(s) /\ s[e + 1] = "_" /\ s[e + 2] = "_"}
    ELSE {}

HasVar(bv, key) == \E j \in 1..Len(bv) : bv[j].key = key

VarValue(bv, key) == (CHOOSE v \in {bv[j] : j \in 1..Len(bv)} : v.key = key).value

\* the replacer: this.bakeVars[key] ?? m
Replacement(bv, m, key) == IF HasVar(bv, key) THEN VarValue(bv, key) ELSE m

\* String.prototype.replace with a global pattern: leftmost match, the
\* quantifier greedy (the longest key first), the scan going on after the match
RECURSIVE ReplaceFrom(_, _, _)
ReplaceFrom(s, i, bv) ==
    IF i > Len(s) THEN <<>>
    ELSE IF KeyEnds(s, i) # {}
    THEN LET e == Max(KeyEnds(s, i))
         IN Replacement(bv, SubSeq(s, i, e + 2), SubSeq(s, i + 2, e))
              \o ReplaceFrom(s, e + 3, bv)
    ELSE <<s[i]>> \o ReplaceFrom(s, i + 1, bv)

\* s has the text pat at position i
MatchesAt(s, i, pat) == i + Len(pat) - 1 <= Len(s) /\ SubSeq(s, i, i + Len(pat) - 1) = pat

\* every occurrence of pat in s replaced by val, left to right
RECURSIVE ReplaceAll(_, _, _, _)
ReplaceAll(s, i, pat, val) ==
    IF i > Len(s) THEN <<>>
    ELSE IF MatchesAt(s, i, pat) THEN val \o ReplaceAll(s, i + Len(pat), pat, val)
    ELSE <<s[i]>> \o ReplaceAll(s, i + 1, pat, val)

RECURSIVE PerKeyFrom(_, _, _)
PerKeyFrom(s, bv, j) ==
    IF j > Len(bv) THEN s
    ELSE PerKeyFrom(ReplaceAll(s, 1, <<"_", "_">> \o bv[j].key \o <<"_", "_">>, bv[j].value),
                    bv, j + 1)

\* bug: one replace per bake key, each over the text the earlier ones left
BakeCode_PerKey(s, bv) == PerKeyFrom(s, bv, 1)

\* line 950: one replace over the source text
BakeCode(s, bv) == ReplaceFrom(s, 1, bv)

\* source texts: tokens and plain characters in a row
Items ==
    {[tok |-> <<"A">>], [tok |-> <<"B">>], [tok |-> <<"A", "_", "B">>], [chr |-> "x"]}

ItemText(it) ==
    IF "tok" \in DOMAIN it THEN <<"_", "_">> \o it.tok \o <<"_", "_">> ELSE <<it.chr>>

RECURSIVE Text(_)
Text(its) == IF its = <<>> THEN <<>> ELSE ItemText(Head(its)) \o Text(Tail(its))

\* bake files: KEY=value lines as dotenv.parse gives them
BakeFiles ==
    {<<[key |-> <<"A">>, value |-> <<"$", "1">>]>>,
     <<[key |-> <<"A">>, value |-> <<"1">>], [key |-> <<"B">>, value |-> <<"$", "$">>]>>,
     <<[key |-> <<"A", "_", "B">>, value |-> <<"3">>], [key |-> <<"B">>, value |-> <<>>]>>,
     <<[key |-> <<"A">>, value |-> <<"_", "_", "B", "_", "_">>],
       [key |-> <<"B">>, value |-> <<"2">>]>>,
     <<[key |-> <<"B">>, value |-> <<"2">>],
       [key |-> <<"A">>, value |-> <<"_", "_", "B", "_", "_">>]>>}

InitBake ==
    /\ runner = "none"
    /\ dir = <<"helper">>
    /\ envFile = <<>>
    /\ envVars = {}
    /\ gen = 0
    /\ modules = EmptyModules
    /\ IdleCalls
    /\ NotYetWatching
    /\ NoOutput
    /\ NoServer
    /\ src \in {Text(its) : its \in SeqsUpTo(Items, MaxSrc)}
    /\ bakeVars \in BakeFiles
    /\ bakeFile = bakeVars
    /\ penv = <<>>
    /\ code = <<>>

\* bug: the output file is written once the evaluation has succeeded
WriteOutput_AfterEval(configured, text, kind) ==
    IF configured /\ kind # "broken" THEN text ELSE Nothing

\* if (this.outputPath) { mkdirSync(...); writeFileSync(this.outputPath, code) }
\* (952-955, before the script is built and run at 990)
WriteOutput(configured, text, kind) == IF configured THEN text ELSE Nothing

\* _load of a plugin path that is one file: the text is substituted,
\* written to the output path, evaluated and registered
LoadSource ==
    /\ runner = "none"
    /\ code' = BakeCode(src, bakeVars)
    /\ outfile' = [outfile EXCEPT
                      !.text = WriteOutput(outfile.configured, BakeCode(src, bakeVars), dir[1])]
    /\ runner' = IF _load(dir, gen + 1).threw THEN "failed" ELSE "ready"
    /\ modules' = _load(dir, gen + 1).modules
    /\ gen' = gen + 1
    /\ penv' = Append(penv, SandboxEnv(envVars))
    /\ UNCHANGED <<dir, envFile, envVars, callVars, src, bakeVars, bakeFile, sideVars, watch, srv, disk>>

NextBake == LoadSource

SpecBake == InitBake /\ [][NextBake]_vars

\* the runner before construction, for every plugin directory and env file
InitLoad ==
    /\ runner = "none"
    /\ dir \in SeqsUpTo(FileKinds, MaxDir)
    /\ envFile \in SeqsUpTo(EnvKeys, MaxEnv)
    /\ envVars = {}
    /\ gen = 0
    /\ modules = EmptyModules
    /\ IdleCalls
    /\ NotYetWatching
    /\ NoOutput
    /\ NoServer
    /\ NoBake

NextLoad ==
    \/ Construct
    \/ \E d \in SeqsUpTo(FileKinds, MaxDir) : Reload(d)

SpecLoad == InitLoad /\ [][NextLoad]_vars

\* several calls in flight on one StageMap with all four stages bound; the
\* handlers rewrite the uri, drop the query string or set a header
ChainEdits == {"uri", "qs", "hdr"}

InitChain ==
    /\ runner = "ready"
    /\ dir = <<"viewer-request", "origin-request", "origin-response", "viewer-response">>
    /\ envFile = <<>>
    /\ envVars = {}
    /\ gen = 1
    /\ modules = _load(dir, 1).modules
    /\ IdleCalls
    /\ Watching
    /\ NoOutput
    /\ NoServer
    /\ NoBake

NextChain ==
    \/ \E c \in Calls, req \in Inbound, e \in ChainEdits : Start(c, "request", req, e)
    \/ \E c \in Calls : SignalResult(c, "obj")
    \/ \E c \in Calls : Mutate(c)
    \/ \E c \in Calls, e \in ChainEdits \cup {"id"} : Resume(c, e)

SpecChain == InitChain /\ [][NextChain]_vars

\* two files, each of which sets or reads POISON on its global scope, run
\* by calls in flight together; the watcher reloads both (part_010, 55-92)
SandboxDir == <<"viewer-request", "origin-request">>

InitSandbox ==
    /\ runner = "ready"
    /\ dir = SandboxDir
    /\ envFile = <<>>
    /\ envVars = {}
    /\ gen = 1
    /\ modules = _load(dir, 1).modules
    /\ IdleCalls
    /\ Watching
    /\ NoOutput
    /\ NoServer
    /\ NoBake

PlainRequest == [method |-> None, pathname |-> "/a", search |-> "", headers |-> <<>>]

NextSandbox ==
    \/ \E c \in Calls, e \in SandboxEdits : Start(c, "request", PlainRequest, e)
    \/ \E c \in Calls : SignalResult(c, "obj")
    \/ \E c \in Calls, e \in SandboxEdits \cup {"id"} : Resume(c, e)
    \/ Reload(SandboxDir)

SpecSandbox == InitSandbox /\ [][NextSandbox]_vars

\* one call on a StageMap with all four stages bound; the handlers call
\* require, return a plain value, or write to their event and settle with
\* another object
HandlerEdits == RequireEdits \cup {"id", "syncret", "scribble"}

NextHandlers ==
    \/ \E c \in One, h \in {"request", "response"}, rq \in Inbound, e \in HandlerEdits :
          Start(c, h, rq, e)
    \/ \E c \in One, v \in {"obj", "undef"} : SignalResult(c, v)
    \/ \E c \in One : SignalError(c)
    \/ \E c \in One, e \in HandlerEdits : Resume(c, e)

SpecHandlers == InitChain /\ [][NextHandlers]_vars

\* the runner before construction, for every plugin directory made of files
\* of every kind
InitFiles ==
    /\ runner = "none"
    /\ dir \in SeqsUpTo(AllKinds, MaxDir)
    /\ envFile = <<>>
    /\ envVars = {}
    /\ gen = 0
    /\ modules = EmptyModules
    /\ IdleCalls
    /\ NotYetWatching
    /\ NoOutput
    /\ NoServer
    /\ NoBake

NextFiles ==
    \/ Construct
    \/ \E d \in SeqsUpTo(AllKinds, MaxDir) : Reload(d)

SpecFiles == InitFiles /\ [][NextFiles]_vars

\* new URL(url || '/', 'http://localhost'): pathname, and search without
\* its "?"
UrlParts(url) ==
    CASE url = "/page?utm_source=twitter&other=keep" ->
            [pathname |-> "/page", search |-> "utm_source=twitter&other=keep"]
      [] url = "/a?q=1" -> [pathname |-> "/a", search |-> "q=1"]
      [] url = "/a?" -> [pathname |-> "/a", search |-> ""]
      [] url = "/a" -> [pathname |-> "/a", search |-> ""]
      [] url = "/v1/a" -> [pathname |-> "/v1/a", search |-> ""]
      [] url = "/v1/a?q=1" -> [pathname |-> "/v1/a", search |-> "q=1"]
      [] url = "/a.json" -> [pathname |-> "/a.json", search |-> ""]
      [] url = "/a.json?q=1" -> [pathname |-> "/a.json", search |-> "q=1"]
      [] url = "/v1/a.json" -> [pathname |-> "/v1/a.json", search |-> ""]
      [] url = "/v1/a.json?q=1" -> [pathname |-> "/v1/a.json", search |-> "q=1"]
      [] url = None -> [pathname |-> "/", search |-> ""]

\* a req as the server passes it: method, url, headers
WebRequest(method, url, headers) ==
    [method |-> method, url |-> url, headers |-> headers,
     pathname |-> UrlParts(url).pathname, search |-> UrlParts(url).search]

InboundUrls ==
    {WebRequest("GET", "/page?utm_source=twitter&other=keep",
                <<[k |-> "Host", value |-> "h"]>>),
     WebRequest("POST", "/a?q=1", <<>>),
     WebRequest("GET", "/a?", <<[k |-> "Host", value |-> "h"]>>),
     WebRequest(None, None, <<>>)}

\* plugin directories: all four stages, origin-request alone, no request
\* stage, no file
RecordDirs ==
    {<<"viewer-request", "origin-request", "origin-response", "viewer-response">>,
     <<"origin-request">>,
     <<"origin-response", "viewer-response">>,
     <<>>}

RecordEdits == HeaderEdits \cup PrefixEdits \cup {"id", "qs"}

InitRecords ==
    /\ runner = "ready"
    /\ dir \in RecordDirs
    /\ envFile = <<>>
    /\ envVars = {}
    /\ gen = 1
    /\ modules = _load(dir, 1).modules
    /\ IdleCalls
    /\ Watching
    /\ NoOutput
    /\ NoServer
    /\ NoBake

\* one call; the handlers rewrite the query string or touch host and via
NextRecords ==
    \/ \E c \in One, rq \in InboundUrls, e \in RecordEdits \cup {"strip"} :
          Start(c, "request", rq, e)
    \/ \E c \in One, rq \in InboundUrls, e \in RecordEdits : Start(c, "response", rq, e)
    \/ \E c \in One : SignalResult(c, "obj")
    \/ \E c \in One, e \in RecordEdits \cup {"strip"} : Resume(c, e)

SpecRecords == InitRecords /\ [][NextRecords]_vars

\* the options a runner is constructed with: watch on or off, the plugin
\* path alone or with an env file and a bake file, each existing or not
WatchPaths ==
    {<<[name |-> "edge", exists |-> x]>> : x \in BOOLEAN}
    \cup {<<[name |-> "edge", exists |-> x], [name |-> "env", exists |-> y]>> :
             x, y \in BOOLEAN}
    \cup {<<[name |-> "edge", exists |-> TRUE], [name |-> "env", exists |-> y],
             [name |-> "bake", exists |-> z]>> : y, z \in BOOLEAN}

InitWatch ==
    /\ runner = "none"
    /\ watch \in [option : BOOLEAN, paths : WatchPaths, watchers : {<<>>},
                  closes : {NoCloses}, calls : {0}]
    /\ dir \in IF watch.paths[1].exists THEN {<<>>, <<"viewer-request">>} ELSE {<<>>}
    /\ envFile = <<>>
    /\ envVars = {}
    /\ gen = 0
    /\ modules = EmptyModules
    /\ IdleCalls
    /\ NoOutput
    /\ NoServer
    /\ NoBake

NextWatch ==
    \/ Construct
    \/ \E d \in {<<>>, <<"viewer-request">>} : Reload(d)
    \/ Close

SpecWatch == InitWatch /\ [][NextWatch]_vars

\* one plugin file of any kind, with and without an output path
InitArtifact ==
    /\ runner = "none"
    /\ dir \in {<<k>> : k \in AllKinds}
    /\ envFile = <<>>
    /\ envVars = {}
    /\ gen = 0
    /\ modules = EmptyModules
    /\ IdleCalls
    /\ NotYetWatching
    /\ outfile \in [configured : BOOLEAN, text : {Nothing}]
    /\ NoServer
    /\ src \in {Text(its) : its \in SeqsUpTo(Items, MaxSrc)}
    /\ bakeVars \in BakeFiles
    /\ bakeFile = bakeVars
    /\ penv = <<>>
    /\ code = <<>>

NextArtifact == LoadSource

SpecArtifact == InitArtifact /\ [][NextArtifact]_vars

(***************************************************************************)
(* The server (startServer): one HTTP request.  Call c1 is its             *)
(* runRequestHook, call c2 its runResponseHook; disk holds the paths that  *)
(* exist under options.directory.                                          *)
(***************************************************************************)
\* parseInt(hookResult.status) || 200
ParseStatus(s) ==
    CASE s = "302" -> 302
      [] s = "200" -> 200
      [] s = "403" -> 403
      [] OTHER -> 200

\* outHeaders[key] = values[0].value for every non-empty value list
FirstValues(h) ==
    LET present == SelectSeq(h, LAMBDA x : x.value # None)
    IN [i \in 1..Len(present) |-> [k |-> present[i].k, value |-> present[i].value]]

RECURSIVE SetHeaders(_, _, _)
\* res.setHeader(k, v) for each entry in order
SetHeaders(h, es, i) ==
    IF i > Len(es) THEN h ELSE SetHeaders(SetKey(h, es[i]), es, i + 1)

\* bug: the server looks for a flag the runner never sets
IsGenerated_ByFlag(hookResult) == "shortCircuit" \in DOMAIN hookResult

\* line 51: if (hookResult.status)
IsGenerated(hookResult) == Truthy(hookResult.status)

\* fs.existsSync(path.join(options.directory, url)): the url as it is, its
\* query string included
ExistsRaw(url) == url \in disk

\* lines 65-88: the url the request goes on with
RewrittenUrl(hookResult, url) ==
    IF Truthy(hookResult.url) /\ hookResult.url # url
    THEN IF hookResult.type = "origin-request"
         THEN IF ExistsRaw(hookResult.url) THEN hookResult.url ELSE url
         ELSE hookResult.url
    ELSE url

\* bug: the headers of the response stages are not applied
ResponseHeaders_Dropped(hookResponse) == <<>>

\* lines 96-101: the entries res.setHeader is called with
ResponseHeaders(hookResponse) == FirstValues(hookResponse.headers)

\* the http server calls the listener: up to the await of runRequestHook
ServerRequest(rq, e) ==
    /\ srv.phase = "idle"
    /\ StartHook("c1", "request", rq, e)
    /\ srv' = [phase |-> "request-hook", method |-> rq.method, inbound |-> rq.headers,
               orig |-> rq.url, url |-> rq.url, status |-> 0, headers |-> <<>>,
               head |-> FALSE, sent |-> <<>>, body |-> None, responseHook |-> FALSE,
               static |-> FALSE, compress |-> FALSE]
    /\ UNCHANGED <<watch, outfile, disk>>

\* lines 47-95: runRequestHook has resolved; a generated response is written
\* and ended, otherwise the url is rewritten and runResponseHook is called
ServerAfterRequest(e) ==
    /\ srv.phase = "request-hook"
    /\ pc["c1"] = "done"
    /\ LET hookResult == out["c1"] IN
       IF IsGenerated(hookResult)
       THEN /\ e = "id"
            /\ srv' = [srv EXCEPT !.phase = "ended",
                                  !.status = ParseStatus(hookResult.status),
                                  !.headers = FirstValues(hookResult.headers),
                                  !.head = TRUE,
                                  !.sent = FirstValues(hookResult.headers)]
            /\ UNCHANGED <<loadVars, callVars, bakeState, sideVars>>
       ELSE LET u == RewrittenUrl(hookResult, srv.url) IN
            /\ StartHook("c2", "response", WebRequest(srv.method, u, srv.inbound), e)
            /\ srv' = [srv EXCEPT !.phase = "response-hook", !.url = u,
                                  !.responseHook = TRUE]
    /\ UNCHANGED <<watch, outfile, disk>>

\* lines 95-135: runResponseHook has resolved; its headers are set on res
\* and the compression middleware calls the static handler
ServerAfterResponse ==
    /\ srv.phase = "response-hook"
    /\ pc["c2"] = "done"
    /\ srv' = [srv EXCEPT !.phase = "serving",
                          !.headers = SetHeaders(@, ResponseHeaders(out["c2"]), 1),
                          !.compress = TRUE]
    /\ UNCHANGED <<loadVars, callVars, bakeState, sideVars, watch, outfile, disk>>

\* the static handler answers for req.url: the file, or 404
ServeStatic ==
    /\ srv.phase = "serving"
    /\ LET found == UrlParts(srv.url).pathname \in disk IN
       srv' = [srv EXCEPT !.phase = "served",
                          !.static = TRUE,
                          !.status = IF found THEN 200 ELSE 404,
                          !.head = TRUE,
                          !.sent = srv.headers,
                          !.body = IF found THEN "file" ELSE "not-found"]
    /\ UNCHANGED <<loadVars, callVars, bakeState, sideVars, watch, outfile, disk>>

\* the awaited hook call rejects: the listener's promise rejects with
\* nothing written to res
ServerHookRejected ==
    /\ \/ srv.phase = "request-hook" /\ pc["c1"] = "rejected"
       \/ srv.phase = "response-hook" /\ pc["c2"] = "rejected"
    /\ srv' = [srv EXCEPT !.phase = "unhandled"]
    /\ UNCHANGED <<loadVars, callVars, bakeState, sideVars, watch, outfile, disk>>

ServerDirs ==
    {<<"viewer-request", "origin-request", "origin-response", "viewer-response">>,
     <<"viewer-request">>,
     <<"origin-request">>,
     <<"viewer-request", "viewer-response">>,
     <<>>}

ServerDisks == {{"/a"}, {"/a", "/v1/a"}, {"/a", "/a.json"}, {}}

ServerInbound ==
    {WebRequest("GET", "/a", <<[k |-> "Host", value |-> "h"]>>),
     WebRequest("GET", "/a?q=1", <<>>)}

ServerEdits == {"id", "uri", "hdr", "resp", "status"}

InitServer ==
    /\ runner = "ready"
    /\ dir \in ServerDirs
    /\ envFile = <<>>
    /\ envVars = {}
    /\ gen = 1
    /\ modules = _load(dir, 1).modules
    /\ IdleCalls
    /\ Watching
    /\ NoOutput
    /\ srv = [phase |-> "idle"]
    /\ disk \in ServerDisks
    /\ NoBake

NextServer ==
    \/ \E rq \in ServerInbound, e \in ServerEdits : ServerRequest(rq, e)
    \/ \E e \in {"id", "hdr"} : ServerAfterRequest(e)
    \/ ServerAfterResponse
    \/ ServeStatic
    \/ ServerHookRejected
    \/ \E c \in Calls : SignalResult(c, "obj")
    \/ \E c \in Calls : SignalError(c)
    \/ \E c \in Calls, e \in ServerEdits : Resume(c, e)

SpecServer == InitServer /\ [][NextServer]_vars

(***************************************************************************)
(* Two hook calls in flight, some of whose handlers never signal.  The     *)
(* event loop runs every queued continuation, and a handler that is not    *)
(* silent signals in the end.                                              *)
(***************************************************************************)
StallEdits == {"hang", "hdr"}

InitStall ==
    /\ runner = "ready"
    /\ dir = <<"viewer-request", "origin-request">>
    /\ envFile = <<>>
    /\ envVars = {}
    /\ gen = 1
    /\ modules = _load(dir, 1).modules
    /\ IdleCalls
    /\ Watching
    /\ NoOutput
    /\ NoServer
    /\ NoBake

NextStall ==
    \/ \E c \in Calls, e \in StallEdits : Start(c, "request", PlainRequest, e)
    \/ \E c \in Calls : SignalResult(c, "obj")
    \/ \E c \in Calls, e \in StallEdits \cup {"id"} : Resume(c, e)

FairStall ==
    \A c \in Calls :
        /\ WF_vars(SignalResult(c, "obj"))
        /\ WF_vars(\E e \in StallEdits \cup {"id"} : Resume(c, e))

SpecStall == InitStall /\ [][NextStall]_vars /\ FairStall

(***************************************************************************)
(* A runner constructed with a plugin path, an env file and a bake file,   *)
(* with and without watching; the three are then changed on disk.          *)
(***************************************************************************)
StorePaths ==
    <<[name |-> "edge", exists |-> TRUE], [name |-> "env", exists |-> TRUE],
      [name |-> "bake", exists |-> TRUE]>>

StoreDirs == {<<"viewer-request">>, <<"origin-request">>}

StoreEnvFiles == {<<>>, <<"TZ">>, <<"TZ", "LANG">>}

InitStore ==
    /\ runner = "none"
    /\ watch \in [option : BOOLEAN, paths : {StorePaths}, watchers : {<<>>},
                  closes : {NoCloses}, calls : {0}]
    /\ dir \in StoreDirs
    /\ envFile \in StoreEnvFiles
    /\ envVars = {}
    /\ gen = 0
    /\ modules = EmptyModules
    /\ IdleCalls
    /\ NoOutput
    /\ NoServer
    /\ src = <<>>
    /\ bakeVars = <<>>
    /\ code = <<>>
    /\ penv = <<>>
    /\ bakeFile \in BakeFiles

NextStore ==
    \/ Construct
    \/ \E d \in StoreDirs : PathChanged(d)
    \/ \E f \in StoreEnvFiles : EnvChanged(f)
    \/ \E b \in BakeFiles : BakeChanged(b)
    \/ Close

SpecStore == InitStore /\ [][NextStore]_vars

(***************************************************************************)
(* One call whose handlers set headers and generate responses with the     *)
(* header names capitalised as the handler wrote them.                     *)
(***************************************************************************)
HeaderCaseEdits == CaseEdits \cup {"id", "hdr", "resp"}

NextHeaders ==
    \/ \E c \in One, h \in {"request", "response"}, rq \in InboundUrls,
          e \in HeaderCaseEdits : Start(c, h, rq, e)
    \/ \E c \in One : SignalResult(c, "obj")
    \/ \E c \in One, e \in HeaderCaseEdits : Resume(c, e)

SpecHeaders == InitRecords /\ [][NextHeaders]_vars

(***************************************************************************)
(* One runRequestHook call for a request that carries a header named like  *)
(* a field of the result.                                                  *)
(***************************************************************************)
ForgedHeaders ==
    {<<>>,
     <<[k |-> "status", value |-> "403"]>>,
     <<[k |-> "uri", value |-> "/a.json"]>>,
     <<[k |-> "url", value |-> "/a.json"]>>,
     <<[k |-> "method", value |-> "DELETE"]>>,
     <<[k |-> "type", value |-> "origin-request"]>>}

ForgedInbound == {WebRequest("GET", "/a?q=1", hs) : hs \in ForgedHeaders}

ForgedEdits == {"id", "hdr"}

NextForged ==
    \/ \E c \in One, rq \in ForgedInbound, e \in ForgedEdits : Start(c, "request", rq, e)
    \/ \E c \in One : SignalResult(c, "obj")
    \/ \E c \in One, e \in ForgedEdits : Resume(c, e)

SpecForged == InitRecords /\ [][NextForged]_vars

(***************************************************************************)
(* Two hook calls for different requests, interleaved at every await; the  *)
(* handlers keep nothing between invocations.                              *)
(***************************************************************************)
PairEdits == {"id", "uri", "hdr", "resp"}

NextPair ==
    \/ \E c \in Calls, h \in {"request", "response"}, rq \in Inbound, e \in PairEdits :
          Start(c, h, rq, e)
    \/ \E c \in Calls : SignalResult(c, "obj")
    \/ \E c \in Calls, e \in PairEdits : Resume(c, e)

SpecPair == InitChain /\ [][NextPair]_vars

(***************************************************************************)
(* Properties                                                              *)
(***************************************************************************)
IsRecord(r) == "status" \in DOMAIN r

Entries(c) == 1..Len(log[c])

\* C1: in runRequestHook, when the viewer-request invocation delivers an
\* object with a status and no uri, no origin-request handler is invoked for
\* that call and the call has returned that response: its status and
\* headers, marked as a response and tagged with viewer-request.
C1_ShortCircuit ==
    \A c \in Calls : \A k \in Entries(c) :
        LET en == log[c][k] IN
        (hook[c] = "request" /\ en.stage = "viewer-request" /\ IsRecord(en.result)
            /\ Truthy(en.result.status) /\ ~Truthy(en.result.uri))
        => /\ k = Len(log[c])
           /\ \A j \in Entries(c) : log[c][j].stage # "origin-request"
           /\ pc[c] = "done"
           /\ out[c].isResponse
           /\ out[c].status = en.result.status
           /\ out[c].headers = en.result.headers
           /\ out[c].type = "viewer-request"

\* a call short-circuited by viewer-request while origin-request was bound
C1_Witness ==
    \E c \in Calls :
        /\ pc[c] = "done" /\ hook[c] = "request" /\ gen = 1
        /\ modules["origin-request"] # <<>>
        /\ Len(log[c]) = 1 /\ log[c][1].stage = "viewer-request"
        /\ out[c].isResponse /\ out[c].status = "302"

\* what the hook call returns when its last invocation settled with res
ResultFor(h, stage, res) ==
    IF IsShortCircuit(h, res)
    THEN [_flatten(res) EXCEPT !.isResponse = TRUE, !.type = stage]
    ELSE FinalResult(h, Carry(h, res, stage))

\* C2: the result a hook call delivers is the one computed from the record
\* as it was when the last handler settled; no mutation the handler makes
\* after settling is visible in it.
C2_AsyncFinality ==
    \A c \in Calls :
        (pc[c] = "done" /\ log[c] # <<>> /\ prom[c] = "obj")
        => out[c] = ResultFor(hook[c], log[c][Len(log[c])].stage, snap[c])

\* C3: an invocation settles with the outcome of the first completion signal
\* of its handler, whatever signals follow.
C3_FirstSignalWins ==
    \A c \in Calls :
        /\ (sigs[c] = <<>>) => prom[c] \in {"idle", "pending"}
        /\ (sigs[c] # <<>>) => prom[c] = sigs[c][1]

\* a result followed by an error, the result standing
C3_Witness ==
    \E c \in Calls :
        /\ Len(sigs[c]) = 2 /\ sigs[c][1] = "obj" /\ sigs[c][2] = "rejected"
        /\ prom[c] = "obj"

\* C4: a handler failure (throw, rejected thenable, callback error) never
\* makes runRequestHook / runResponseHook reject.
C4_FailOpen ==
    \A c \in Calls : ~(pc[c] = "rejected" /\ prom[c] = "rejected")

\* C6: all the handlers one call runs come from one load of the plugin path.
C6_OneStageMap ==
    \A c \in Calls : \A j, k \in Entries(c) : log[c][j].gen = log[c][k].gen

\* C8: in runResponseHook, viewer-response is invoked after origin-response
\* has settled, with the response origin-response returned, and the value
\* returned carries the headers set by both stages.
C8_ResponseOrder ==
    \A c \in Calls : hook[c] = "response" =>
        /\ \A j, k \in Entries(c) :
              (log[c][j].stage = "viewer-response" /\ log[c][k].stage = "origin-response")
              => k < j
        /\ \A k \in Entries(c) : k > 1 =>
              LET prev == log[c][k - 1].result IN
              /\ IsRecord(prev)
              /\ log[c][k].input.status = prev.status
              /\ log[c][k].input.headers = LowerKeys(prev.headers)
        /\ (pc[c] = "done" /\ Len(log[c]) = 2 /\ log[c][1].edit = "hdr" /\ log[c][2].edit = "hdr")
           => /\ HeaderValue(out[c].flat, "cache-control") = "1"
              /\ HeaderValue(out[c].flat, "x-frame") = "1"

\* both response stages ran and both set a header
C8_Witness ==
    \E c \in Calls :
        /\ hook[c] = "response" /\ pc[c] = "done" /\ Len(log[c]) = 2
        /\ log[c][1].stage = "origin-response" /\ log[c][2].stage = "viewer-response"
        /\ log[c][1].edit = "hdr" /\ log[c][2].edit = "hdr"
        /\ log[c][1].gen = log[c][2].gen

\* C5: a plugin directory in which two files declare one stage never gives
\* an active StageMap: no constructed or reloaded runner holds two modules
\* for a stage.
C5_DuplicateStageBinding ==
    runner = "ready" => \A s \in Stages : Len(modules[s]) <= 1

\* C9: an env file with a key off the allow-list yields no runner, wherever
\* the key stands in the file and whatever valid keys it also holds.
C9_RestrictedVariable ==
    (\E i \in 1..Len(envFile) : envFile[i] \notin whitelist)
    => runner \in {"none", "failed"} /\ gen = 0

\* construction refused for a file whose first key is valid
C9_Witness ==
    /\ runner = "failed"
    /\ Len(envFile) = 2 /\ envFile[1] \in whitelist /\ envFile[2] \notin whitelist
    /\ \A i \in 1..Len(dir) : dir[i] # "broken"

\* C7: within one call of runRequestHook with both request stages bound,
\* origin-request is invoked only after the viewer-request invocation has
\* settled and the call has resumed, its input is the request viewer-request
\* returned (uri, querystring, method, headers), and two rewrites of the uri
\* compose; this holds for each call while another call is in flight.
C7_RequestOrder ==
    \A c \in Calls :
        /\ \A k \in Entries(c) : log[c][k].stage = "origin-request" =>
              /\ k = 2
              /\ log[c][1].stage = "viewer-request"
              /\ IsRecord(log[c][1].result)
              /\ log[c][2].input.uri = log[c][1].result.uri
              /\ log[c][2].input.querystring = log[c][1].result.querystring
              /\ log[c][2].input.method = log[c][1].result.method
              /\ log[c][2].input.headers = LowerKeys(log[c][1].result.headers)
        /\ (pc[c] = "done" /\ Len(log[c]) = 2 /\ log[c][1].edit = "uri" /\ log[c][2].edit = "uri")
           => out[c].uri = "/v1/a.json"

\* origin-request runs on the rewritten uri while another call is in flight
C7_Witness ==
    \E c, d \in Calls :
        /\ c # d
        /\ Len(log[c]) = 2 /\ log[c][2].stage = "origin-request"
        /\ log[c][1].edit = "uri" /\ log[c][2].input.uri = "/v1/a"
        /\ pc[d] = "pending" /\ Len(log[d]) = 1

\* the text a source made of the items its is meant to become
RECURSIVE Expected(_, _)
Expected(its, bv) ==
    IF its = <<>> THEN <<>>
    ELSE (IF "tok" \in DOMAIN Head(its) /\ HasVar(bv, Head(its).tok)
          THEN VarValue(bv, Head(its).tok)
          ELSE ItemText(Head(its))) \o Expected(Tail(its), bv)

\* C10: every token __KEY__ of the source is replaced by the literal value
\* of bakeVars[KEY] when KEY is present and left as it is otherwise, also
\* when tokens are adjacent or the key contains an underscore.
C10_BakeEveryToken ==
    runner = "ready" =>
        \A its \in SeqsUpTo(Items, MaxSrc) :
            Text(its) = src => code = Expected(its, bakeVars)

\* C11: a module reads on its global scope only what it has itself written
\* since its own load: a handler that reads POISON sees the writes of no
\* other file and of no earlier load of its own file, and reads 'clean'
\* unless it has itself set it.
C11_GlobalIsolation ==
    \A c \in Calls : \A k \in Entries(c) :
        LET en == log[c][k]
            me == [file |-> en.file, gen |-> en.gen]
        IN /\ en.read \subseteq {me}
           /\ (en.edit = "check" /\ IsRecord(en.result))
              => (HeaderValue(en.result.headers, "x-state") = "dirty"
                    <=> en.read = {me})

\* the origin-request file reads a clean scope after the viewer-request file
\* of the same load has set POISON, and so does a reloaded viewer-request
\* file after its earlier load has set it
C11_Witness ==
    \E c, d \in Calls :
        /\ \E k \in Entries(c) :
              /\ log[c][k].edit = "check" /\ log[c][k].stage = "origin-request"
              /\ IsRecord(log[c][k].result)
              /\ HeaderValue(log[c][k].result.headers, "x-state") = "clean"
              /\ \E w \in globals : w.by.gen = log[c][k].gen /\ w.by.file # log[c][k].file
        /\ \E k \in Entries(d) :
              /\ log[d][k].edit = "check" /\ log[d][k].stage = "viewer-request"
              /\ log[d][k].gen = 2 /\ log[d][k].read = {}
              /\ \E w \in globals : w.by = [file |-> log[d][k].file, gen |-> 1]

\* C12: the sandbox's require throws for fs, child_process and os, and a
\* call in which a handler let that failure escape does not reject.
C12_ForbiddenRequire ==
    /\ \A id \in {"fs", "child_process", "os"} : SandboxRequire(id) = "throws"
    /\ \A c \in Calls :
          (\E k \in Entries(c) : Throws(log[c][k].edit)) => pc[c] # "rejected"

\* C13: an invocation whose handler returned a plain value and calls no
\* callback is settled with that value once _invoke has returned.
C13_SyncReturn ==
    \A c \in Calls : Silent(c) => prom[c] = "obj"

NoScribble(o) ==
    IsRecord(o) => /\ o.uri # "/scribbled"
                   /\ ~HasKey(o.headers, "x-scribble")

\* C14: what a handler writes to the event it was handed, when it settles
\* with another object, shows in no record handed to a later stage (neither
\* the request nor the response of its event), nor in the record the
\* pipeline holds or the result of the call; every response stage is handed
\* the request built from the caller's req, and the req of a call in flight
\* never changes.
C14_DeepCopy ==
    /\ [](\A c \in Calls :
            /\ \A k \in Entries(c) :
                  /\ NoScribble(log[c][k].input)
                  /\ NoScribble(log[c][k].request)
                  /\ hook[c] = "response"
                        => log[c][k].request = _buildRequestRecord(reqs[c])
            /\ NoScribble(rec[c]) /\ NoScribble(creq[c])
            /\ NoScribble(out[c]))
    /\ [][\A c \in Calls : pc[c] # "idle" => reqs'[c] = reqs[c]]_vars

\* origin-response wrote to its event and settled with another object, and
\* viewer-response was invoked after it
C14_Witness ==
    \E c \in Calls :
        /\ hook[c] = "response" /\ Len(log[c]) = 2
        /\ log[c][1].edit = "scribble" /\ IsRecord(log[c][1].result)
        /\ log[c][2].stage = "viewer-response"
        /\ reqs[c].pathname = "/a"

\* C15: a handler that settles with no result leaves the call running: the
\* call does not reject, and the next invocation is handed the record the
\* silent stage was handed.
C15_NoResultPassThrough ==
    \A c \in Calls : \A k \in Entries(c) :
        log[c][k].result = Undefined
        => /\ pc[c] # "rejected"
           /\ k < Len(log[c]) => log[c][k + 1].input.headers = log[c][k].input.headers

\* the files of d that are to be registered for stage s, in order
RECURSIVE RegisteredFrom(_, _, _, _)
RegisteredFrom(d, i, s, g) ==
    IF i > Len(d) THEN <<>>
    ELSE (IF Exports(d[i]).hookType = s /\ Exports(d[i]).handler = "function"
             /\ d[i] # "broken"
          THEN <<[file |-> i, gen |-> g]>> ELSE <<>>) \o RegisteredFrom(d, i + 1, s, g)

\* C16: a file that fails to evaluate does not fail the load: the runner is
\* constructed (or stays ready after a reload) and holds every valid file of
\* the directory.
C16_BrokenFileSkipped ==
    (/\ runner # "none"
     /\ \E i \in 1..Len(dir) : dir[i] = "broken"
     /\ \A i \in 1..Len(dir) : dir[i] \in FileKinds)
    => /\ runner = "ready"
       /\ \A s \in Stages : modules[s] = RegisteredFrom(dir, 1, s, gen)

\* C17: the StageMap holds exactly the files whose hookType is a stage name
\* and whose handler is a function; no other file makes the load raise.
C17_RegisteredIffValid ==
    (runner # "none" /\ \A i \in 1..Len(dir) : dir[i] # "broken")
    => /\ runner = "ready"
       /\ \A s \in Stages : modules[s] = RegisteredFrom(dir, 1, s, gen)

PathAndQuery(url) ==
    CASE url = None -> "/"
      [] url = "/a?" -> "/a"
      [] OTHER -> url

C21_PolicyNeverBlocks ==
    \A c \in Calls : \A k \in Entries(c) :
        LET en == log[c][k] IN
        (IsRecord(en.result) /\ ~IsShortCircuit(hook[c], en.result))
        => /\ pc[c] \in {"pending", "settled", "done"}
           /\ k < Len(log[c])
                => /\ log[c][k + 1].input.headers = LowerKeys(en.result.headers)
                   /\ log[c][k + 1].input.uri = en.result.uri
                   /\ log[c][k + 1].input.querystring = en.result.querystring
                   /\ log[c][k + 1].input.status = en.result.status
           /\ (k = Len(log[c]) /\ pc[c] = "done")
                => /\ out[c].headers = LowerKeys(en.result.headers)
                   /\ \A n \in {"host", "via", "connection"} :
                         HeaderValue(en.result.headers, n) # None
                         => HeaderValue(out[c].flat, n) = HeaderValue(en.result.headers, n)

\* the first stage changed host and drew a warning, the second stage was
\* handed the changed host and the call returned it
C21_Witness ==
    \E c \in Calls :
        /\ pc[c] = "done" /\ Len(log[c]) = 2
        /\ log[c][1].edit = "sethost" /\ log[c][1].warnings = {"host"}
        /\ HeaderValue(log[c][2].input.headers, "host") = "evil"
        /\ log[c][2].edit = "id"
        /\ HeaderValue(out[c].flat, "host") = "evil"

\* C22: a stage that changes or adds a header whose name starts with x-amz-
\* or x-edge- draws a warning for that header.
C22_ReservedPrefixes ==
    \A c \in Calls : \A k \in Entries(c) :
        LET en == log[c][k] IN
        (IsRecord(en.result) /\ ~IsShortCircuit(hook[c], en.result))
        => \A n \in {"x-amz-cf-id", "x-edge-location"} :
              HeaderValue(en.input.headers, n) # HeaderValue(en.result.headers, n)
              => n \in en.warnings

\* the constructor installed a handle for the path t
Installed(t) ==
    /\ runner \in {"ready", "crashed"}
    /\ watch.option
    /\ \E i \in 1..Len(watch.paths) : watch.paths[i].name = t /\ watch.paths[i].exists

\* C23: once close() has been called the runner holds no handle and every
\* handle the constructor installed has been closed exactly once, however
\* many calls followed; a call after the first changes nothing of the runner.
C23_CloseIdempotent ==
    /\ [](/\ \A t \in DOMAIN watch.closes : watch.closes[t] <= 1
          /\ watch.calls >= 1
               => /\ watch.watchers = <<>>
                  /\ \A t \in DOMAIN watch.closes :
                        watch.closes[t] = IF Installed(t) THEN 1 ELSE 0)
    /\ [][(watch.calls >= 1 /\ watch'.calls > watch.calls)
            => /\ watch'.watchers = watch.watchers
               /\ watch'.closes = watch.closes
               /\ UNCHANGED <<runner, modules, gen, envVars>>]_vars

\* a runner watching two paths, closed twice
C23_Witness ==
    /\ watch.calls = 2
    /\ watch.closes["edge"] = 1 /\ watch.closes["env"] = 1

\* C27: with an output path configured, once the file has been loaded the
\* output file holds the substituted text, whether the evaluation threw,
\* the file was registered or not; with no output path nothing is written.
C27_ArtifactWritten ==
    runner # "none"
    => outfile.text = IF outfile.configured THEN BakeCode(src, bakeVars) ELSE Nothing

\* a file whose evaluation threw, its substituted text written
C27_Witness ==
    /\ runner = "failed" /\ dir = <<"broken">>
    /\ outfile.configured
    /\ outfile.text = code /\ code # src /\ code # <<>>
\* C24: a request whose original path exists on disk is never answered with
\* a 404 because a request stage rewrote its path to one that does not
\* exist: the server serves the original path instead.
C24_RewriteFallsBack ==
    (srv.phase = "served" /\ UrlParts(srv.orig).pathname \in disk)
    => srv.status # 404

\* C25: when runRequestHook returns a short-circuit result, the server
\* recognises it, writes its status and the first value of each of its
\* headers, ends the response, and for that request calls neither
\* runResponseHook nor the compression middleware nor the static handler.
C25_GeneratedResponseWritten ==
    (srv.phase \notin {"idle", "request-hook"} /\ pc["c1"] = "done"
        /\ out["c1"].isResponse)
    => /\ srv.phase = "ended"
       /\ srv.head
       /\ srv.status = ParseStatus(out["c1"].status)
       /\ srv.sent = FirstValues(out["c1"].headers)
       /\ srv.body = None
       /\ ~srv.responseHook /\ pc["c2"] = "idle"
       /\ ~srv.compress
       /\ ~srv.static

\* a redirect generated by a request stage was written and the response
\* ended
C25_Witness ==
    /\ srv.phase = "ended"
    /\ out["c1"].isResponse
    /\ srv.status = 302
    /\ srv.sent = <<[k |-> "location", value |-> "/login"]>>
    /\ modules["origin-response"] # <<>>

NeverSignals(c) == log[c] # <<>> /\ log[c][Len(log[c])].edit = "hang"

\* the stages of the entries of a log
StagesRun(lg) == [k \in 1..Len(lg) |-> lg[k].stage]

\* C28: a hook call whose handler never signals completion stays pending for
\* ever, while every other call in flight, started before or after it, goes
\* on through its stages in order until it resolves or reaches a handler of
\* its own that never signals.
C28_StallIsLocal ==
    /\ [](\A c \in Calls : NeverSignals(c) => pc[c] = "pending")
    /\ [](\A c \in Calls : pc[c] = "done"
              => StagesRun(log[c]) = <<"viewer-request", "origin-request">>)
    /\ \A d \in Calls :
          (pc[d] \in {"pending", "settled"} /\ ~NeverSignals(d))
              ~> (pc[d] = "done" \/ NeverSignals(d))

\* one call is stalled in its first stage while the other has run both of
\* its stages and resolved
C28_Witness ==
    \E c, d \in Calls :
        /\ NeverSignals(c) /\ pc[c] = "pending" /\ Len(log[c]) = 1
        /\ pc[d] = "done" /\ Len(log[d]) = 2
\* C29: while the runner is watching, a reload never ends the process: after
\* the watcher's callback has run, whatever the plugin files now evaluate
\* to, the runner is still ready to serve requests.
C29_ReloadNeverFatal ==
    [][(runner = "ready" /\ gen' # gen) => runner' = "ready"]_vars
\* the lines the runner has written to the console during call c: one
\* console.warn per restricted header a stage changed (1143), tagged with
\* the invocation it was written for
ConsoleLines(c) ==
    UNION {{[entry |-> k, header |-> key] : key \in log[c][k].warnings} : k \in Entries(c)}

\* C30: a hook call that failed (its handler threw, required a forbidden
\* module, rejected or reported an error to its callback) has written at
\* least one console line for the failing invocation by the time it
\* completes.
C30_FailureLogged ==
    \A c \in Calls :
        pc[c] = "rejected" => \E l \in ConsoleLines(c) : l.entry = Len(log[c])
\* the keys of an env file
KeysOf(f) == {f[i] : i \in 1..Len(f)}

\* C31: a reload triggered by a change of the env file or of the bake file
\* leaves the variable store holding the current content of both files.
C31_ReloadReadsFiles ==
    [][(runner = "ready" /\ gen' # gen /\ (envFile' # envFile \/ bakeFile' # bakeFile))
          => (envVars' = KeysOf(envFile') /\ bakeVars' = bakeFile')]_vars
\* C32: a reload that fails leaves the active StageMap exactly as it was
\* before the reload began.
C32_FailedReloadPublishesNothing ==
    [][(runner = "ready" /\ gen' # gen /\ runner' # "ready") => modules' = modules]_vars
\* C33: once the runner is constructed, and after every reload, every key
\* of envVars is on the allow-list and is a key of the env file as it was
\* read, and the process.env of every sandbox built so far holds exactly the
\* envVars entries.
C33_EnvConfined ==
    runner \in {"ready", "crashed"}
    => /\ envVars \subseteq whitelist
       /\ envVars = KeysOf(envFile)
       /\ Len(penv) = gen
       /\ \A g \in 1..Len(penv) : penv[g] = envVars

\* a runner constructed from an env file with two allowed keys, reloaded
\* once, with a module bound
C33_Witness ==
    /\ runner = "ready"
    /\ gen = 2
    /\ envVars = {"TZ", "LANG"}
    /\ penv[2] = {"TZ", "LANG"}
    /\ \E s \in Stages : modules[s] # <<>>
\* every key of a header map is a lowercase name
LowerKeyed(h) == \A i \in 1..Len(h) : h[i].k = toLowerCase(h[i].k)

\* every entry keeps a display name that spells its key
NamesKept(h) == \A i \in 1..Len(h) : toLowerCase(h[i].key) = h[i].k

\* C34: the header map of every record handed to a stage handler, and of
\* every result a hook call returns, is keyed by lowercase names only, and
\* each entry keeps the display name it was written with.
C34_LowercaseKeys ==
    \A c \in Calls :
        /\ \A k \in Entries(c) :
              /\ LowerKeyed(log[c][k].input.headers)
              /\ NamesKept(log[c][k].input.headers)
              /\ hook[c] = "response" => LowerKeyed(log[c][k].request.headers)
        /\ pc[c] = "done" => LowerKeyed(out[c].headers) /\ NamesKept(out[c].headers)
\* the request modules bound in the active StageMap
BoundRequestModules == Len(modules["viewer-request"]) + Len(modules["origin-request"])

\* C35: the type of a runRequestHook result is the stage of the last
\* invocation the call made: for a pass-through result every bound request
\* module has run and it is the last of them, for a short-circuit result it
\* is the stage whose handler generated the response.
C35_TypeNamesStage ==
    \A c \in Calls :
        (pc[c] = "done" /\ hook[c] = "request")
        => /\ out[c].type = IF log[c] = <<>> THEN None
                            ELSE log[c][Len(log[c])].stage
           /\ ~out[c].isResponse => Len(log[c]) = BoundRequestModules
           /\ out[c].isResponse =>
                 /\ log[c] # <<>>
                 /\ Truthy(log[c][Len(log[c])].result.status)

\* a response generated by origin-request after viewer-request ran
C35_Witness ==
    \E c \in Calls :
        /\ pc[c] = "done" /\ hook[c] = "request"
        /\ Len(log[c]) = 2
        /\ out[c].isResponse
        /\ out[c].type = "origin-request"
        /\ log[c][1].edit = "hdr"
\* C36: the status, uri, url, method and type of a pass-through
\* runRequestHook result are those of the final record of the pipeline,
\* whatever headers the record carries.
C36_FieldsNotFromHeaders ==
    \A c \in Calls :
        (pc[c] = "done" /\ hook[c] = "request" /\ ~out[c].isResponse)
        => /\ out[c].status = rec[c].status
           /\ out[c].uri = rec[c].uri
           /\ out[c].method = rec[c].method
           /\ out[c].type = rec[c].type
           /\ out[c].url = IF ~Truthy(rec[c].uri) THEN None
                            ELSE IF Truthy(rec[c].querystring)
                            THEN rec[c].uri \o "?" \o rec[c].querystring
                            ELSE rec[c].uri
\* the record a hook call starts from
FirstRecord(c) ==
    IF hook[c] = "request" THEN _buildRequestRecord(reqs[c])
    ELSE BuildResponseRecord(CHOOSE d \in ResData : TRUE)

\* the record the k-th invocation of a call is made with when the call runs
\* alone: the handlers of lg applied one after the other
RECURSIVE AloneInput(_, _, _, _)
AloneInput(h, r, lg, k) ==
    IF k = 1 THEN r
    ELSE Carry(h, ApplyEdit(lg[k - 1].edit, AloneInput(h, r, lg, k - 1), lg[k - 1].stage),
               lg[k - 1].stage)

\* the result of the call when it runs alone
AloneResult(h, r, lg) ==
    IF lg = <<>> THEN FinalResult(h, r)
    ELSE LET n == Len(lg)
             res == ApplyEdit(lg[n].edit, AloneInput(h, r, lg, n), lg[n].stage)
         IN IF IsShortCircuit(h, res) THEN ShortCircuitResult(res, lg[n].stage)
            ELSE FinalResult(h, Carry(h, res, lg[n].stage))

\* C37: with handlers that keep no state, every invocation of a call is
\* made with the record the call's own earlier handlers produced from the
\* call's own request, and the call resolves with the result it gives when
\* run alone, whatever another call does in between.
C37_InterleavingIsolated ==
    \A c \in Calls :
        /\ \A k \in Entries(c) :
              log[c][k].input = AloneInput(hook[c], FirstRecord(c), log[c], k)
        /\ pc[c] = "done" => out[c] = AloneResult(hook[c], FirstRecord(c), log[c])

\* a call has resolved after two rewrites while a call for another request
\* is waiting for its first handler
C37_Witness ==
    \E c, d \in Calls :
        /\ pc[c] = "done" /\ Len(log[c]) = 2
        /\ log[c][1].edit = "uri" /\ log[c][2].edit = "hdr"
        /\ pc[d] = "pending" /\ Len(log[d]) = 1
        /\ reqs[c] # reqs[d]
        /\ hook[c] = hook[d]
\* C38: a runner constructed with watch disabled has no watcher, and while
\* the runner has no watcher (never installed, or closed) no change of the
\* plugin path, the env file or the bake file alters the active StageMap
\* or the variable store.
C38_NoReloadUnwatched ==
    /\ [](~watch.option => watch.watchers = <<>>)
    /\ [][(runner = "ready" /\ watch.watchers = <<>>)
             => (modules' = modules /\ gen' = gen /\ envVars' = envVars
                   /\ bakeVars' = bakeVars /\ watch'.watchers = <<>>)]_vars

\* after close(), the plugin path, the env file and the bake file have all
\* changed and the runner still holds what it loaded
C38_Witness ==
    /\ runner = "ready"
    /\ watch.option /\ watch.calls > 0 /\ watch.watchers = <<>>
    /\ gen = 1
    /\ modules # _load(dir, 1).modules
    /\ envVars # KeysOf(envFile)
    /\ bakeVars # bakeFile
\* C39: after a successful reload the active StageMap holds, for every
\* stage, exactly the valid files now in the plugin path that declare it, as
\* loaded by this reload, and nothing of an earlier load.
C39_NoStaleBinding ==
    (runner = "ready" /\ gen > 1)
    => \A s \in Stages : modules[s] = RegisteredFrom(dir, 1, s, gen)
\* the lines of a bake file in the opposite order
Reversed(bv) == [j \in 1..Len(bv) |-> bv[Len(bv) + 1 - j]]

\* no two tokens of the source stand next to each other
Separated(its) ==
    \A k \in 1..(Len(its) - 1) : ~("tok" \in DOMAIN its[k] /\ "tok" \in DOMAIN its[k + 1])

\* C40: substitution is one pass over the source: a token is replaced by
\* its bake value as written, a value that contains a token is not
\* substituted again, and the text does not depend on the order of the
\* lines of the bake file.
C40_SinglePass ==
    runner = "ready" =>
        /\ code = BakeCode(src, Reversed(bakeVars))
        /\ \A its \in SeqsUpTo(Items, MaxSrc) :
              (Text(its) = src /\ Separated(its)) => code = Expected(its, bakeVars)

\* __A__ was replaced by the value __B__, which stayed as written although
\* B is a bake key listed after A
C40_Witness ==
    /\ runner = "ready"
    /\ src = <<"_", "_", "A", "_", "_", "x", "_", "_", "B", "_", "_">>
    /\ Len(bakeVars) = 2 /\ bakeVars[1].key = <<"A">> /\ bakeVars[2].key = <<"B">>
    /\ code = <<"_", "_", "B", "_", "_", "x", "2">>

====
